---- MODULE Spec2Model ----
(***************************************************************************)
(* Model of gitbot's two stateful pieces:                                  *)
(*   - GitHubLinesView and its three buttons                               *)
(*     (src/lib/structs/discord/components/github_lines_view.py)           *)
(*   - the github_cached decorator in front of GitHubAPI methods           *)
(*     (src/lib/api/github.py)                                             *)
(* Strings that the code builds and rewrites (lines_url) are sequences of  *)
(* one-character strings, so that str.replace is modelled by what it does. *)
(***************************************************************************)
EXTENDS Integers, Sequences, FiniteSets, TLC

VARIABLES
    \* ---- GitHubLinesView ----
    platform,      \* self.platform
    l1,            \* self.l1
    l2,            \* self.l2 (None when the link names a single line)
    original_l1,   \* self.__original_l1__
    original_l2,   \* self.__original_l2__
    original_url,  \* self.__original_url__
    original_match,\* the two line groups of self.__original_match__
    lines_url,     \* self.lines_url
    disabled,      \* self.children[2].disabled
    label_back,    \* self.children[0].label
    label_forward, \* self.children[1].label
    msg,           \* the message as Discord displays it
    op,            \* the handler that ran last
    previous_l1,   \* local previous_l1 of GitHubLinesButton.callback
    previous_l2,   \* local previous_l2 of GitHubLinesButton.callback
    new,           \* local new of GitHubLinesButton.callback (the fetched text)
    presses,       \* buttons pressed so far
    trip,          \* observer: forward^f backward^b run since construction/revert
    \* ---- github_cached ----
    github_object_cache, \* GitHubAPI.github_object_cache
    age,           \* seconds since each entry of the cache was stored
    others,        \* entries the cache holds under keys other than Keys
    evicted,       \* keys whose entry the size cap pushed out
    call,          \* the last wrapper call: its key, source and returned value
    \* ---- command handlers ----
    doc,           \* the invoking user's document in the users collection
    loc_cache,     \* bot.mgr.loc_cache
    tmp,           \* ./tmp/<message id>.zip and ./tmp/<message id>
    run,           \* the last command run: replies sent, calls made, exception
    \* ---- GitHubAPI query methods ----
    gql,           \* the last query method call: its inputs and what it returned
    \* ---- handlers interleaved at their awaits ----
    task,          \* the two button callbacks in flight on the view
    dbop           \* a delitem and a setitem in flight on one document

viewVars == <<platform, l1, l2, original_l1, original_l2, original_url,
              original_match, lines_url, disabled, label_back, label_forward,
              msg, op, previous_l1, previous_l2, new, presses, trip>>
cacheVars == <<github_object_cache, age, others, evicted, call>>
cmdVars == <<doc, loc_cache, tmp, run>>
auxVars == <<gql, task, dbop>>
cmdVarsButRun == <<doc, loc_cache, tmp>>
vars == <<viewVars, cacheVars, cmdVars, auxVars>>

\* ------------------------------------------------------------------ bounds

\* buttons pressed on one view before its timeout
MaxPresses == 5

\* the 25 of get_next_lines and __init__
Step == 25

\* Python's None where an int may stand: a value no line number takes
None == 0 - 1
\* no text came back from the fetch
NoText == [none |-> TRUE]
\* the callback's local new before any callback ran
Unset == [unset |-> TRUE]

Max(a, b) == IF a >= b THEN a ELSE b

\* ------------------------------------------------------------------ strings

\* str(n) of a non-negative int, as a sequence of characters
DigitChar(d) ==
    CASE d = 0 -> "0" [] d = 1 -> "1" [] d = 2 -> "2" [] d = 3 -> "3"
      [] d = 4 -> "4" [] d = 5 -> "5" [] d = 6 -> "6" [] d = 7 -> "7"
      [] d = 8 -> "8" [] d = 9 -> "9"

RECURSIVE Str(_)
Str(n) == IF n < 10 THEN <<DigitChar(n)>>
          ELSE Str(n \div 10) \o <<DigitChar(n % 10)>>

\* f'{x}' of an int-or-None value
Fmt(x) == IF x = None THEN <<"N", "o", "n", "e">> ELSE Str(x)

StartsWith(s, old) ==
    /\ Len(s) >= Len(old)
    /\ SubSeq(s, 1, Len(old)) = old

\* str.replace(old, new): every non-overlapping occurrence, left to right
RECURSIVE Replace(_, _, _)
Replace(s, old, nw) ==
    IF s = <<>> THEN <<>>
    ELSE IF StartsWith(s, old)
         THEN nw \o Replace(SubSeq(s, Len(old) + 1, Len(s)), old, nw)
         ELSE <<Head(s)>> \o Replace(Tail(s), old, nw)

\* the part of a line link before its fragment; it holds no '#'
UrlBase == <<"u">>

\* the line link the view is built from, as the platform writes it:
\* github  .../blob/ref/path#L<a>  or #L<a>-L<b>
\* gitlab  .../blob/ref/path#L<a>  or #L<a>-<b>
LinkUrl(p, first, second) ==
    UrlBase \o <<"#", "L">> \o Str(first) \o
    (IF second = None THEN <<>>
     ELSE IF p = "github" THEN <<"-", "L">> \o Str(second)
     ELSE <<"-">> \o Str(second))

\* ------------------------------------------------------------------ view

\* ctx.l.views.button.github_lines.view_from_to.format(a, b)
view_from_to(a, b) == [fmt |-> "view_from_to", args |-> <<a, b>>]
\* ctx.l.views.button.github_lines.view.format(n)
view(n) == [fmt |-> "view", args |-> <<n>>]

get_next_lines_off_by_one(a, b, forward) ==
    IF forward
    THEN IF b # None THEN <<Max(b, 1), Max(b + Step, 1)>>
         ELSE <<Max(a, 1), Max(a + Step, 1)>>
    ELSE <<Max(a - Step, 1), Max(a, 1)>>

get_next_lines_floor_zero(a, b, forward) ==
    IF forward
    THEN IF b # None THEN <<Max(b + 1, 0), Max(b + Step, 0)>>
         ELSE <<Max(a, 0), Max(a + Step, 0)>>
    ELSE <<Max(a - Step, 0), Max(a - 1, 0)>>

\* GitHubLinesButton.get_next_lines(l1, l2, forward)
get_next_lines(a, b, forward) ==
    IF forward
    THEN IF b # None THEN <<Max(b + 1, 1), Max(b + Step, 1)>>
         ELSE <<Max(a, 1), Max(a + Step, 1)>>
    ELSE <<Max(a - Step, 1), Max(a - 1, 1)>>

set_labels_crossed(range_backward, range_forward) ==
    /\ label_back' = view_from_to(range_forward[1], range_forward[2])
    /\ label_forward' = view_from_to(range_backward[1], range_backward[2])

\* GitHubLinesView.set_labels(range_backward, range_forward)
set_labels(range_backward, range_forward) ==
    /\ label_back' = IF range_backward[1] = range_backward[2]
                     THEN view(1)
                     ELSE view_from_to(range_backward[1], range_backward[2])
    /\ label_forward' = view_from_to(range_forward[1], range_forward[2])

\* what interaction.message.edit(content=..., view=self.view) displays
Rendered(content) ==
    [content |-> content, back |-> label_back', forward |-> label_forward',
     revert_disabled |-> disabled']

\* get_text_from_url_and_data: the text of lines a..b of the file, or nothing
Texts(a, b) == {[a |-> a, b |-> b], NoText}

NoTrip == [f |-> 0, b |-> 0, clamped |-> FALSE, pure |-> FALSE]
NewTrip == [f |-> 0, b |-> 0, clamped |-> FALSE, pure |-> TRUE]

\* the label __init__ gives the backward button (children[0])
init_label_back(first) ==
    LET b1 == Max(Max(first, 1) - Step, 1)
        b2 == Max(Max(first, 1) - 1, 1)
    IN IF b1 # b2 THEN view_from_to(b1, b2) ELSE view(1)

\* the label __init__ gives the forward button (children[1]); `l2 or l1`
\* takes l1 for l2 None and for l2 0
init_label_forward(first, second) ==
    LET base == IF second = None \/ second = 0 THEN Max(first, 1) ELSE second
    IN view_from_to(Max(base + 1, 1), Max(base + Step, 1))

\* GitHubLinesView.__init__ for a link with line groups first, second
ViewInitOf(p, first, second) ==
    /\ platform = p
    /\ lines_url = LinkUrl(p, first, second)
    /\ l1 = Max(first, 1)
    /\ l2 = second
    /\ original_url = LinkUrl(p, first, second)
    /\ original_l1 = Max(first, 1)
    /\ original_l2 = second
    /\ original_match = <<first, second>>
    /\ label_back = init_label_back(first)
    /\ label_forward = init_label_forward(first, second)
    /\ disabled = TRUE
    /\ msg = [content |-> [hdr |-> <<>>, text |-> [a |-> first, b |-> second]],
              back |-> label_back, forward |-> label_forward,
              revert_disabled |-> TRUE]
    /\ op = "init"
    /\ previous_l1 = None
    /\ previous_l2 = None
    /\ new = Unset
    /\ presses = 0
    /\ trip = NewTrip

\* the line numbers of the links the views are built from: the regex's
\* \d+ groups, so 0 and second < first occur; None is a single-line link
Firsts == {0, 1, 2, 5, 30}
Seconds == {None, 0, 1, 4, 10, 26, 29, 54}

ViewInit ==
    \E p \in {"github", "gitlab"}, first \in Firsts, second \in Seconds :
        ViewInitOf(p, first, second)

\* the lines_url rewrite of GitHubLinesButton.callback (the match statement)
RewriteUrl(url, p, p1, p2, n1, n2) ==
    IF p = "github"
    THEN IF p2 = None
         THEN Replace(url, <<"#", "L">> \o Fmt(p1),
                      <<"#", "L">> \o Fmt(n1) \o <<"-", "L">> \o Fmt(n2))
         ELSE Replace(url, <<"L">> \o Fmt(p1) \o <<"-", "L">> \o Fmt(p2),
                      <<"L">> \o Fmt(n1) \o <<"-", "L">> \o Fmt(n2))
    ELSE IF p2 = None
         THEN Replace(url, <<"#", "L", "[">> \o Fmt(p1) \o <<"]">>,
                      <<"#", "L">> \o Fmt(n1) \o <<"-">> \o Fmt(n2))
         ELSE Replace(url, <<"#", "L">> \o Fmt(p1) \o <<"-", "L">> \o Fmt(p2),
                      <<"#", "L">> \o Fmt(n1) \o <<"-", "L">> \o Fmt(n2))

\* the header f'`#L{l1}{"-L"+str(l2) if l2 != 1 else ""}`' of the edited message
Header(a, b) == IF b # 1 THEN <<a, b>> ELSE <<a>>

callback_keeps_revert_off(forward) ==
    LET nxt == get_next_lines(l1, l2, forward) IN
    /\ \E text \in Texts(nxt[1], nxt[2]) :
        /\ new' = text
        /\ disabled' = IF text # NoText THEN FALSE ELSE disabled
        /\ IF text # NoText
           THEN /\ set_labels(get_next_lines(nxt[1], nxt[2], FALSE),
                              get_next_lines(nxt[1], nxt[2], TRUE))
                /\ msg' = Rendered([hdr |-> Header(nxt[1], nxt[2]), text |-> text])
           ELSE UNCHANGED <<label_back, label_forward, msg>>
    /\ previous_l1' = l1
    /\ previous_l2' = l2
    /\ l1' = nxt[1]
    /\ l2' = nxt[2]
    /\ lines_url' = RewriteUrl(lines_url, platform, l1, l2, nxt[1], nxt[2])

callback_edits_always(forward) ==
    LET nxt == get_next_lines(l1, l2, forward) IN
    /\ disabled' = FALSE
    /\ \E text \in Texts(nxt[1], nxt[2]) :
        /\ new' = text
        /\ set_labels(get_next_lines(nxt[1], nxt[2], FALSE),
                      get_next_lines(nxt[1], nxt[2], TRUE))
        /\ msg' = Rendered([hdr |-> Header(nxt[1], nxt[2]), text |-> text])
    /\ previous_l1' = l1
    /\ previous_l2' = l2
    /\ l1' = nxt[1]
    /\ l2' = nxt[2]
    /\ lines_url' = RewriteUrl(lines_url, platform, l1, l2, nxt[1], nxt[2])

\* GitHubLinesButton.callback(interaction), the button's forward flag given
callback(forward) ==
    LET nxt == get_next_lines(l1, l2, forward) IN
    /\ disabled' = FALSE
    /\ previous_l1' = l1
    /\ previous_l2' = l2
    /\ l1' = nxt[1]
    /\ l2' = nxt[2]
    /\ lines_url' = RewriteUrl(lines_url, platform, l1, l2, nxt[1], nxt[2])
    /\ \E text \in Texts(nxt[1], nxt[2]) :
        /\ new' = text
        /\ IF text # NoText
           THEN /\ set_labels(get_next_lines(nxt[1], nxt[2], FALSE),
                              get_next_lines(nxt[1], nxt[2], TRUE))
                /\ msg' = Rendered([hdr |-> Header(nxt[1], nxt[2]), text |-> text])
           ELSE UNCHANGED <<label_back, label_forward, msg>>

\* the forward button (children[1]) is pressed
Forward ==
    /\ presses < MaxPresses
    /\ presses' = presses + 1
    /\ callback(TRUE)
    /\ op' = "forward"
    /\ trip' = IF trip.pure /\ trip.b = 0
               THEN [trip EXCEPT !.f = @ + 1]
               ELSE NoTrip
    /\ UNCHANGED <<platform, original_l1, original_l2, original_url,
                   original_match>>
    /\ UNCHANGED cacheVars
    /\ UNCHANGED <<cmdVars, auxVars>>

\* the backward button (children[0]) is pressed
Backward ==
    /\ presses < MaxPresses
    /\ presses' = presses + 1
    /\ callback(FALSE)
    /\ op' = "backward"
    /\ trip' = IF trip.pure /\ trip.b < trip.f
               THEN [trip EXCEPT !.b = @ + 1,
                                 !.clamped = @ \/ l1 - Step < 1 \/ l1 - 1 < 1]
               ELSE NoTrip
    /\ UNCHANGED <<platform, original_l1, original_l2, original_url,
                   original_match>>
    /\ UNCHANGED cacheVars
    /\ UNCHANGED <<cmdVars, auxVars>>

revert_keeps_window ==
    /\ disabled' = TRUE
    /\ UNCHANGED <<l1, l2>>
    /\ set_labels(get_next_lines(original_l1, original_l2, FALSE),
                  get_next_lines(original_l1, original_l2, TRUE))
    /\ \E text \in Texts(original_match[1], original_match[2]) :
        msg' = Rendered([hdr |-> <<>>, text |-> text])
    /\ UNCHANGED lines_url

\* _GitHubLinesBackToOriginalButton.callback(interaction)
revert_callback ==
    /\ disabled' = TRUE
    /\ l1' = original_l1
    /\ l2' = original_l2
    /\ set_labels(get_next_lines(original_l1, original_l2, FALSE),
                  get_next_lines(original_l1, original_l2, TRUE))
    /\ \E text \in Texts(original_match[1], original_match[2]) :
        msg' = Rendered([hdr |-> <<>>, text |-> text])
    \* self.view._url is assigned, not self.view.lines_url
    /\ UNCHANGED lines_url

\* the revert button (children[2]) is pressed; Discord offers it only while
\* the displayed message shows it enabled
Revert ==
    /\ presses < MaxPresses
    /\ presses' = presses + 1
    /\ ~msg.revert_disabled
    /\ revert_callback
    /\ op' = "revert"
    /\ previous_l1' = None
    /\ previous_l2' = None
    /\ new' = Unset
    /\ trip' = NewTrip
    /\ UNCHANGED <<platform, original_l1, original_l2, original_url,
                   original_match>>
    /\ UNCHANGED cacheVars
    /\ UNCHANGED <<cmdVars, auxVars>>

\* ------------------------------------------------------------------ cache

\* largest argument value (a user name) the API methods are called with
NumArgs == 2

Args == 1..NumArgs

\* two of the methods behind @github_cached
Funcs == {"get_user", "get_user_orgs"}

Value(type, empty) == [type |-> type, empty |-> empty]

\* what the wrapped method can return for argument x:
\* get_user: None on a QueryError (or an invalid name), else a filled dict;
\* get_user_orgs: whatever JSON value getitem hands back, [] by default
Results(f, x) ==
    IF f = "get_user"
    THEN {[v |-> Value("NoneType", TRUE), of |-> <<f, x>>],
          [v |-> Value("dict", FALSE), of |-> <<f, x>>]}
    ELSE {[v |-> Value(t, TRUE), of |-> <<f, x>>] :
              t \in {"NoneType", "bool", "list", "dict"}}
         \cup {[v |-> Value(t, FALSE), of |-> <<f, x>>] :
              t \in {"str", "list", "dict"}}

\* bool(value): None, False and empty containers are falsy
Truthy(r) == ~r.v.empty

\* isinstance(result, (dict, list))
IsContainer(r) == r.v.type \in {"dict", "list"}

Absent == [absent |-> TRUE]
NoResult == [none |-> TRUE]

\* f'{id(func)}:{args[1]}'
cache_key(f, x) == <<f, x>>

Keys == {cache_key(f, x) : f \in Funcs, x \in Args}

\* TypedCache(..., maxsize=64, max_age=450)
maxsize == 64
max_age == 450

\* seconds that pass in one step of the clock
TickLen == 225

CacheInit ==
    /\ github_object_cache = [k \in Keys |-> Absent]
    /\ age = [k \in Keys |-> 0]
    /\ others = 0
    /\ evicted = {}
    /\ call = [key |-> <<>>, style |-> "none", outcome |-> "none",
               result |-> NoResult, had |-> "none", age |-> 0]

\* TypedCache.get(key): the entry while it is no older than max_age, else None
cache_get(k) ==
    IF github_object_cache[k] # Absent /\ age[k] <= max_age
    THEN github_object_cache[k]
    ELSE Absent

Stored == {k \in Keys : github_object_cache[k] # Absent}

\* TypedCache.__setitem__(key, value): a new key stored into a full cache
\* pushes one entry out, one of the keys followed here or one of the others
cache_set(k, value) ==
    IF k \in Stored \/ Cardinality(Stored) + others < maxsize
    THEN /\ github_object_cache' = [github_object_cache EXCEPT ![k] = value]
         /\ age' = [age EXCEPT ![k] = 0]
         /\ evicted' = evicted \ {k}
         /\ UNCHANGED others
    ELSE \/ /\ others > 0
            /\ others' = others - 1
            /\ github_object_cache' = [github_object_cache EXCEPT ![k] = value]
            /\ age' = [age EXCEPT ![k] = 0]
            /\ evicted' = evicted \ {k}
         \/ \E victim \in Stored :
            /\ github_object_cache' =
                   [github_object_cache EXCEPT ![victim] = Absent, ![k] = value]
            /\ age' = [age EXCEPT ![victim] = 0, ![k] = 0]
            /\ evicted' = (evicted \cup {victim}) \ {k}
            /\ UNCHANGED others

\* what the cache holds for a key: nothing yet ("never"), nothing since the
\* size cap pushed it out ("evicted"), an entry past max_age ("expired"),
\* or an entry within max_age ("live")
Holding(k) ==
    IF github_object_cache[k] = Absent
    THEN IF k \in evicted THEN "evicted" ELSE "never"
    ELSE IF age[k] > max_age THEN "expired" ELSE "live"

CallOf(k, style, outcome, result) ==
    [key |-> k, style |-> style, outcome |-> outcome, result |-> result,
     had |-> Holding(k), age |-> age[k]]

wrapper_stores_all(f, x, style) ==
    IF style = "keyword"
    THEN /\ call' = CallOf(cache_key(f, x), style, "IndexError", NoResult)
         /\ UNCHANGED <<github_object_cache, age, others, evicted>>
    ELSE LET k == cache_key(f, x)
             cached == cache_get(k) IN
         IF cached # Absent /\ Truthy(cached)
         THEN /\ call' = CallOf(k, style, "hit", cached)
              /\ UNCHANGED <<github_object_cache, age, others, evicted>>
         ELSE \E result \in Results(f, x) :
                /\ cache_set(k, result)
                /\ call' = CallOf(k, style, "miss", result)

wrapper_reads_store(f, x, style) ==
    IF style = "keyword"
    THEN /\ call' = CallOf(cache_key(f, x), style, "IndexError", NoResult)
         /\ UNCHANGED <<github_object_cache, age, others, evicted>>
    ELSE LET k == cache_key(f, x)
             cached == github_object_cache[k] IN
         IF cached # Absent /\ Truthy(cached)
         THEN /\ call' = CallOf(k, style, "hit", cached)
              /\ UNCHANGED <<github_object_cache, age, others, evicted>>
         ELSE \E result \in Results(f, x) :
                /\ IF IsContainer(result)
                   THEN cache_set(k, result)
                   ELSE UNCHANGED <<github_object_cache, age, others, evicted>>
                /\ call' = CallOf(k, style, "miss", result)

\* github_cached.wrapper for api.f(x) (style "positional") or api.f(name=x)
\* (style "keyword": args is (self,), so args[1] raises IndexError)
wrapper(f, x, style) ==
    IF style = "keyword"
    THEN /\ call' = CallOf(cache_key(f, x), style, "IndexError", NoResult)
         /\ UNCHANGED <<github_object_cache, age, others, evicted>>
    ELSE LET k == cache_key(f, x)
             cached == cache_get(k) IN
         IF cached # Absent /\ Truthy(cached)
         THEN /\ call' = CallOf(k, style, "hit", cached)
              /\ UNCHANGED <<github_object_cache, age, others, evicted>>
         ELSE \E result \in Results(f, x) :
                /\ IF IsContainer(result)
                   THEN cache_set(k, result)
                   ELSE UNCHANGED <<github_object_cache, age, others, evicted>>
                /\ call' = CallOf(k, style, "miss", result)

\* a cached API method is called
Call ==
    /\ \E f \in Funcs, x \in Args, style \in {"positional", "keyword"} :
           wrapper(f, x, style)
    /\ UNCHANGED viewVars
    /\ UNCHANGED <<cmdVars, auxVars>>

\* TypedCache drops an entry (older than max_age, or pushed out at maxsize)
Expire ==
    /\ \E k \in Keys :
        /\ github_object_cache[k] # Absent
        /\ github_object_cache' = [github_object_cache EXCEPT ![k] = Absent]
        /\ age' = [age EXCEPT ![k] = 0]
    /\ UNCHANGED <<others, evicted, call>>
    /\ UNCHANGED viewVars
    /\ UNCHANGED <<cmdVars, auxVars>>

\* the one argument the timed runs call the methods with
TtlArgs == {1}

\* a cached API method is called, in the runs that follow the clock
TtlCall ==
    /\ \E f \in Funcs, x \in TtlArgs, style \in {"positional", "keyword"} :
           wrapper(f, x, style)
    /\ UNCHANGED viewVars
    /\ UNCHANGED <<cmdVars, auxVars>>

\* TickLen seconds pass; an entry's age is followed until it is past max_age
Tick ==
    /\ \E k \in Stored : age[k] <= max_age
    /\ age' = [k \in Keys |->
                  IF github_object_cache[k] # Absent /\ age[k] <= max_age
                  THEN age[k] + TickLen ELSE age[k]]
    /\ UNCHANGED <<github_object_cache, others, evicted, call>>
    /\ UNCHANGED viewVars
    /\ UNCHANGED <<cmdVars, auxVars>>

\* a cached method stores a result under a key not followed here
OtherStore ==
    /\ IF Cardinality(Stored) + others < maxsize
       THEN /\ others' = others + 1
            /\ UNCHANGED <<github_object_cache, age, evicted>>
       ELSE \/ /\ others > 0
               /\ UNCHANGED <<others, github_object_cache, age, evicted>>
            \/ \E victim \in Stored :
               /\ github_object_cache' =
                      [github_object_cache EXCEPT ![victim] = Absent]
               /\ age' = [age EXCEPT ![victim] = 0]
               /\ evicted' = evicted \cup {victim}
               /\ others' = others + 1
    /\ UNCHANGED call
    /\ UNCHANGED viewVars
    /\ UNCHANGED <<cmdVars, auxVars>>

\* ------------------------------------------------------------------ users collection

\* the fields of a user's document besides _id
Fields == {"user", "repo", "org", "locale"}

\* names a field is set to; the API and the locale list know some of them
Names == Args

NoDoc == [exists |-> FALSE, f |-> [x \in Fields |-> None]]

\* UserCollection.getitem(_id, item)
getitem(d, item) == IF d.exists THEN d.f[item] ELSE None

\* number of keys of the stored document, _id included
DocLen(d) == 1 + Cardinality({x \in Fields : d.f[x] # None})

delitem_keeps_document(d, field) ==
    IF d.exists /\ d.f[field] # None
    THEN [done |-> TRUE, doc |-> [d EXCEPT !.f[field] = None]]
    ELSE [done |-> FALSE, doc |-> d]

\* UserCollection.delitem(_id, field): the value returned and the document left
delitem(d, field) ==
    IF d.exists /\ d.f[field] # None
    THEN LET query == [d EXCEPT !.f[field] = None] IN
         [done |-> TRUE, doc |-> IF DocLen(query) = 1 THEN NoDoc ELSE query]
    ELSE [done |-> FALSE, doc |-> d]

setitem_writes_unchecked(d, item, value, confirmed) ==
    [done |-> confirmed,
     doc |-> [exists |-> TRUE, f |-> [d.f EXCEPT ![item] = value]]]

\* UserCollection.setitem(_id, item, value); confirmed is what get_user /
\* get_repo / get_org "is not None" or the locale list lookup yields
setitem(d, item, value, confirmed) ==
    LET valid == IF item \in {"user", "repo", "org"} THEN confirmed
                 ELSE IF item = "locale" THEN confirmed
                 ELSE TRUE IN
    IF valid
    THEN [done |-> TRUE,
          doc |-> [exists |-> TRUE, f |-> [d.f EXCEPT ![item] = value]]]
    ELSE [done |-> FALSE, doc |-> d]

\* ------------------------------------------------------------------ command handlers

NoBody == [none |-> TRUE]
NoU == [none |-> TRUE]

\* a command's context before the handler runs
Ctx(d, data) ==
    [doc |-> d, before |-> d, invoked_with_stored |-> FALSE, data |-> data,
     replies |-> <<>>, api |-> <<>>, raised |-> "none", steps |-> <<>>]

\* ctx.error(message)
ctx_error(ctx, text) ==
    [ctx EXCEPT !.replies = Append(@, [kind |-> "error", text |-> text,
                                       body |-> NoBody])]

\* ctx.send(embed=...) / ctx.reply(embed=...) / embed.send(ctx)
ctx_send(ctx, body) ==
    [ctx EXCEPT !.replies = Append(@, [kind |-> "embed", text |-> "embed",
                                       body |-> body])]

\* an API method is awaited
Awaited(ctx, method) == [ctx EXCEPT !.api = Append(@, method)]

\* the handler stops with an exception
Raised(ctx, exc) == [ctx EXCEPT !.raised = exc]

\* largest count a user's profile carries
MaxCount == 3

Counts == 0..MaxCount

\* the user dicts get_user hands back: the four counts the info embed words;
\* every field takes every count, the four of one profile differing
Users ==
    {[organizations |-> c, followers |-> (c + 1) % (MaxCount + 1),
      following |-> (c + 2) % (MaxCount + 1),
      public_repos |-> (c + 3) % (MaxCount + 1)] : c \in Counts}

Phrase(form, n) == [form |-> form, n |-> n]

count_phrase_plural_from_one(n) ==
    IF n = 0 THEN Phrase("none", None) ELSE Phrase("plural", n)

\* user_info_command's wording of a count: the "no ..." text, the singular
\* text, or the plural text formatted with the count
count_phrase(n) ==
    LET first == IF n # 0 THEN Phrase("plural", n) ELSE Phrase("none", None) IN
    IF n = 1 THEN Phrase("singular", None) ELSE first

\* the embed user_info_command builds from u
user_info_embed(u) ==
    [orgs |-> count_phrase(u.organizations),
     followers |-> count_phrase(u.followers),
     following |-> count_phrase(u.following),
     repos |-> count_phrase(u.public_repos)]

info_body_always_forgets(ctx, user, found) ==
    LET c1 == IF ctx.data # NoU THEN ctx ELSE Awaited(ctx, "get_user")
        u == IF ctx.data # NoU THEN ctx.data ELSE found IN
    IF u = NoU
    THEN ctx_error([c1 EXCEPT !.doc = delitem(c1.doc, "user").doc],
                   "generic.nonexistent.user.qa_changed")
    ELSE ctx_send(c1, user_info_embed(u))

info_body_silent(ctx, user, found) ==
    LET c1 == IF ctx.data # NoU THEN ctx ELSE Awaited(ctx, "get_user")
        u == IF ctx.data # NoU THEN ctx.data ELSE found IN
    IF u = NoU THEN c1 ELSE ctx_send(c1, user_info_embed(u))

\* user_info_command from `ctx.fmt.set_prefix` on: user is set; found is what
\* get_user(user) hands back
info_body(ctx, user, found) ==
    LET c1 == IF ctx.data # NoU THEN ctx ELSE Awaited(ctx, "get_user")
        u == IF ctx.data # NoU THEN ctx.data ELSE found IN
    IF u = NoU
    THEN IF c1.invoked_with_stored
         THEN ctx_error([c1 EXCEPT !.doc = delitem(c1.doc, "user").doc],
                        "generic.nonexistent.user.qa_changed")
         ELSE ctx_error(c1, "generic.nonexistent.user.base")
    ELSE ctx_send(c1, user_info_embed(u))

\* user_command_group(ctx, user), and user_info_command(ctx, user) invoked
\* from it or invoking it
RECURSIVE user_command_group(_, _, _), user_info_command(_, _, _)
user_command_group(ctx, user, found) ==
    IF user = None
    THEN LET stored == getitem(ctx.doc, "user") IN
         IF stored # None
         THEN user_info_command([ctx EXCEPT !.invoked_with_stored = TRUE],
                                stored, found)
         ELSE ctx_error(ctx, "generic.nonexistent.user.qa")
    ELSE user_info_command(ctx, user, found)

user_info_command(ctx, user, found) ==
    IF user = None
    THEN user_command_group(ctx, None, found)
    ELSE info_body(ctx, user, found)

\* ---- loc ----

\* int(25 * (1024 ** 2))
_25MB_BYTES == 26214400

\* sizes of the zipball the upstream serves
Sizes == {0, 1, _25MB_BYTES - 1, _25MB_BYTES, _25MB_BYTES + 1}

\* what get_repo_zip returns: None, False, or the bytes read
Files(kind, len) == [kind |-> kind, len |-> len]

\* `not files`
NoFiles(files) == files.kind \in {"None", "False"} \/ files.len = 0

get_repo_zip_returns_partial(status, size, size_threshold) ==
    IF status = 200
    THEN Files("bytes", IF size >= size_threshold THEN size_threshold ELSE size)
    ELSE Files("None", 0)

\* GitHubAPI.get_repo_zip for a well-formed owner/name: readexactly yields
\* size_threshold bytes when the body has that many, and raises
\* IncompleteReadError with the whole body otherwise
get_repo_zip(status, size, size_threshold) ==
    IF status = 200
    THEN IF size >= size_threshold THEN Files("False", 0)
         ELSE Files("bytes", size)
    ELSE Files("None", 0)

NoTmp == [zip |-> FALSE, dir |-> FALSE]

\* the finally block of process_repo: rmtree of the directory, then removal
\* of the zip, FileNotFoundError from either ending the block
remove_artifacts(t) == IF t.dir THEN NoTmp ELSE t

\* how unzip_file ends
UnzipOutcomes == {"ok", "raises before the directory exists",
                  "raises after the directory exists"}

\* how the cloc run ends
ClocOutcomes == {"ok", "nonzero exit", "output is not JSON"}

\* one outcome of the try block of process_repo
Outcome(ret, exc, steps, t) == [ret |-> ret, exc |-> exc, steps |-> steps, tmp |-> t]

\* the try block of process_repo: what it returns or raises, the steps it
\* took, and the artifacts it leaves for the finally block
process_repo_try(files, unzip, cloc) ==
    IF NoFiles(files)
    THEN Outcome("None", "none", <<"get_repo_zip">>, NoTmp)
    ELSE IF unzip = "raises before the directory exists"
    THEN Outcome("raise", "BadZipFile", <<"get_repo_zip", "write", "unzip">>,
                 [zip |-> TRUE, dir |-> FALSE])
    ELSE IF unzip = "raises after the directory exists"
    THEN Outcome("raise", "BadZipFile", <<"get_repo_zip", "write", "unzip">>,
                 [zip |-> TRUE, dir |-> TRUE])
    ELSE IF cloc = "nonzero exit"
    THEN Outcome("None", "none",
                 <<"get_repo_zip", "write", "unzip", "config", "cloc">>,
                 [zip |-> TRUE, dir |-> TRUE])
    ELSE IF cloc = "output is not JSON"
    THEN Outcome("raise", "JSONDecodeError",
                 <<"get_repo_zip", "write", "unzip", "config", "cloc">>,
                 [zip |-> TRUE, dir |-> TRUE])
    ELSE Outcome("result", "none",
                 <<"get_repo_zip", "write", "unzip", "config", "cloc", "store">>,
                 [zip |-> TRUE, dir |-> TRUE])

\* LinesOfCode.process_repo
process_repo(cache, repo, nocache, files, unzip, cloc) ==
    IF ~nocache /\ cache[repo] # Absent
    THEN [Outcome("result", "none", <<>>, NoTmp) EXCEPT !.ret = "cached"]
    ELSE LET o == process_repo_try(files, unzip, cloc) IN
         [o EXCEPT !.tmp = remove_artifacts(@)]

\* LinesOfCode.lines_of_code_command; r is what get_repo hands back, p the
\* outcome of process_repo
lines_of_code_command(ctx, r, p) ==
    LET c1 == Awaited(ctx, "get_repo") IN
    IF ~r
    THEN ctx_error(c1, "generic.nonexistent.repo.base")
    ELSE LET c2 == [c1 EXCEPT !.steps = p.steps] IN
         IF p.ret = "raise" THEN Raised(c2, p.exc)
         ELSE IF p.ret = "None" THEN ctx_error(c2, "loc.file_too_big")
         ELSE ctx_send(c2, [loc |-> p.ret])

\* ---- lists ----

\* a user that exists
AnyUser == CHOOSE u \in Users : u.organizations = 0

\* longest lists the upstream hands back
MaxRepos == 17
MaxOwners == 7

\* entries of a description and of an authors line
ReposShown == 15
OwnersShown == 5

\* a list of n entries
ListOf(n) == [i \in 1..n |-> i]

\* seq[:k]
Take(seq, k) == SubSeq(seq, 1, IF Len(seq) < k THEN Len(seq) ELSE k)

user_repos_command_no_footer(ctx, u, repos) ==
    LET c2 == Awaited(Awaited(ctx, "get_user"), "get_user_repos") IN
    IF u = NoU THEN ctx_error(c2, "generic.nonexistent.user.base")
    ELSE IF repos = <<>> THEN ctx_error(c2, "user.repos.no_public")
    ELSE ctx_send(c2, [items |-> Take(repos, ReposShown), more |-> <<>>])

\* User.user_repos_command; u and repos are what get_user and get_user_repos
\* hand back
user_repos_command(ctx, u, repos) ==
    LET c2 == Awaited(Awaited(ctx, "get_user"), "get_user_repos")
        c == Len(repos) IN
    IF u = NoU THEN ctx_error(c2, "generic.nonexistent.user.base")
    ELSE IF repos = <<>> THEN ctx_error(c2, "user.repos.no_public")
    ELSE ctx_send(c2, [items |-> Take(repos, ReposShown),
                       more |-> IF c > ReposShown THEN Str(c - ReposShown)
                                ELSE <<>>])

\* Crates.crate_info_command; data is whether get_crate_data found the crate
crate_info_command(ctx, data, owners) ==
    LET c1 == Awaited(ctx, "get_crate_data") IN
    IF data
    THEN LET c2 == Awaited(c1, "get_crate_owners") IN
         IF owners = <<>> THEN Raised(c2, "IndexError")
         ELSE ctx_send(c2, [items |-> Take(owners, OwnersShown),
                            more |-> IF Len(owners) > OwnersShown
                                     THEN Str(Len(owners) - OwnersShown)
                                     ELSE <<>>])
    ELSE ctx_error(c1, "generic.nonexistent.rust_crate")

\* Crates.crate_downloads_command
crate_downloads_command(ctx, data) ==
    LET c1 == Awaited(ctx, "get_crate_downloads") IN
    IF data # <<>> THEN ctx_send(c1, [days |-> Len(data) - 1])
    ELSE ctx_error(c1, "generic.nonexistent.rust_crate")

\* PyPI.project_info_command
project_info_command(ctx, data) ==
    LET c1 == Awaited(ctx, "get_project_data") IN
    IF data THEN ctx_send(c1, [project |-> TRUE])
    ELSE ctx_error(c1, "generic.nonexistent.python_package")

\* PyPI.project_downloads_command; overall is None, a dict with empty data
\* or a dict with data, recent is None or a dict
project_downloads_command(ctx, overall, recent) ==
    LET c1 == Awaited(ctx, "get_project_overall_downloads") IN
    IF overall = "data"
    THEN LET c2 == Awaited(c1, "get_project_recent_downloads") IN
         IF recent = "None" THEN Raised(c2, "TypeError")
         ELSE ctx_send(c2, [project |-> TRUE])
    ELSE ctx_error(c1, "generic.nonexistent.python_package")

\* no command has run yet
Idle ==
    [handler |-> "none", given |-> None, item |-> "none", confirmed |-> FALSE,
     done |-> FALSE, before |-> NoDoc, found |-> NoU, stored |-> FALSE,
     replies |-> <<>>, api |-> <<>>, raised |-> "none",
     nocache |-> FALSE, status |-> None, size |-> None, steps |-> <<>>,
     items |-> <<>>]

\* what a run of a handler leaves in `run`
RunOf(handler, given, ctx, found) ==
    [Idle EXCEPT !.handler = handler, !.given = given, !.found = found,
                 !.before = ctx.before, !.stored = ctx.invoked_with_stored,
                 !.replies = ctx.replies, !.api = ctx.api,
                 !.raised = ctx.raised, !.steps = ctx.steps]

CmdInitOf(d) ==
    /\ doc = d
    /\ loc_cache = [r \in Names |-> Absent]
    /\ tmp = [zip |-> FALSE, dir |-> FALSE]
    /\ run = Idle

CmdInit == CmdInitOf(NoDoc)

\* `git user [name]` or `git user info [name]` is invoked
UserCommand ==
    /\ \E h \in {"user", "user info"}, user \in {None} \cup Names,
          found \in {NoU} \cup Users, data \in {NoU} :
        LET ctx == IF h = "user"
                   THEN user_command_group(Ctx(doc, data), user, found)
                   ELSE user_info_command(Ctx(doc, data), user, found) IN
        /\ doc' = ctx.doc
        /\ run' = RunOf(h, user, ctx,
                        IF "get_user" \in {ctx.api[i] : i \in DOMAIN ctx.api}
                        THEN found ELSE NoU)
    /\ UNCHANGED <<loc_cache, tmp>>
    /\ UNCHANGED <<viewVars, cacheVars, auxVars>>

\* what the upstream, unzip_file and cloc do during one loc run; the outcome
\* of a step that an earlier outcome keeps from running is left at its first
\* value
LocWorlds ==
    {w \in [r : BOOLEAN, status : {200, 404}, size : Sizes,
            unzip : UnzipOutcomes, cloc : ClocOutcomes] :
        /\ ~w.r => w.status = 200
        /\ (~w.r \/ w.status # 200) => w.size = 0
        /\ NoFiles(get_repo_zip(w.status, w.size, _25MB_BYTES)) => w.unzip = "ok"
        /\ w.unzip # "ok" => w.cloc = "ok"}

\* `git loc <repo>` or `git loc-nocache <repo>` is invoked
Loc ==
    /\ \E repo \in Names, nocache \in BOOLEAN, w \in LocWorlds :
        LET r == w.r
            status == w.status
            size == w.size
            files == get_repo_zip(status, size, _25MB_BYTES)
            p == process_repo(loc_cache, repo, nocache, files, w.unzip, w.cloc)
            ctx == lines_of_code_command(Ctx(doc, NoU), r, p)
            fetched == r /\ p.steps # <<>> IN
        /\ loc_cache' = IF r /\ p.ret = "result"
                        THEN [loc_cache EXCEPT ![repo] = [loc |-> "result"]]
                        ELSE loc_cache
        /\ tmp' = IF r THEN p.tmp ELSE NoTmp
        /\ run' = [RunOf("loc", repo, ctx, NoU) EXCEPT
                       !.confirmed = r, !.nocache = nocache,
                       !.status = IF fetched THEN status ELSE None,
                       !.size = IF fetched /\ status = 200 THEN size ELSE None]
    /\ UNCHANGED doc
    /\ UNCHANGED <<viewVars, cacheVars, auxVars>>

\* `git user repos <name>` is invoked
UserRepos ==
    /\ \E user \in Names, u \in {NoU, AnyUser}, n \in 0..MaxRepos :
        LET ctx == user_repos_command(Ctx(doc, NoU), u, ListOf(n)) IN
        run' = [RunOf("user repos", user, ctx, u) EXCEPT !.items = ListOf(n)]
    /\ UNCHANGED cmdVarsButRun
    /\ UNCHANGED <<viewVars, cacheVars, auxVars>>

\* `git crates info <crate>` is invoked
CrateInfo ==
    /\ \E crate \in Names, data \in BOOLEAN, n \in 0..MaxOwners :
        LET ctx == crate_info_command(Ctx(doc, NoU), data, ListOf(n)) IN
        run' = [RunOf("crates info", crate, ctx, NoU) EXCEPT
                    !.confirmed = data,
                    !.items = IF data THEN ListOf(n) ELSE <<>>]
    /\ UNCHANGED cmdVarsButRun
    /\ UNCHANGED <<viewVars, cacheVars, auxVars>>

\* `git crates downloads <crate>` is invoked
CrateDownloads ==
    /\ \E crate \in Names, n \in 0..2 :
        LET ctx == crate_downloads_command(Ctx(doc, NoU), ListOf(n)) IN
        run' = [RunOf("crates downloads", crate, ctx, NoU) EXCEPT
                    !.confirmed = n > 0, !.items = ListOf(n)]
    /\ UNCHANGED cmdVarsButRun
    /\ UNCHANGED <<viewVars, cacheVars, auxVars>>

\* `git pypi info <project>` is invoked
ProjectInfo ==
    /\ \E project \in Names, data \in BOOLEAN :
        LET ctx == project_info_command(Ctx(doc, NoU), data) IN
        run' = [RunOf("pypi info", project, ctx, NoU) EXCEPT !.confirmed = data]
    /\ UNCHANGED cmdVarsButRun
    /\ UNCHANGED <<viewVars, cacheVars, auxVars>>

\* `git pypi downloads <project>` is invoked
ProjectDownloads ==
    /\ \E project \in Names, overall \in {"None", "empty", "data"},
          recent \in {"None", "dict"} :
        LET ctx == project_downloads_command(Ctx(doc, NoU), overall, recent) IN
        run' = [RunOf("pypi downloads", project, ctx, NoU) EXCEPT
                    !.confirmed = (overall = "data")]
    /\ UNCHANGED cmdVarsButRun
    /\ UNCHANGED <<viewVars, cacheVars, auxVars>>

\* a config command stores a field: setitem(ctx, item, value)
SetItem ==
    /\ \E item \in Fields, value \in Names, confirmed \in BOOLEAN :
        LET res == setitem(doc, item, value, confirmed) IN
        /\ doc' = res.doc
        /\ run' = [Idle EXCEPT !.handler = "setitem", !.given = value,
                                !.item = item, !.confirmed = confirmed,
                                !.done = res.done, !.before = doc,
                                !.api = IF item = "locale" THEN <<>>
                                        ELSE <<"get_" \o item>>]
    /\ UNCHANGED <<loc_cache, tmp>>
    /\ UNCHANGED <<viewVars, cacheVars, auxVars>>

\* a config command removes a field: delitem(ctx, field)
DelItem ==
    /\ \E field \in Fields :
        LET res == delitem(doc, field) IN
        /\ doc' = res.doc
        /\ run' = [Idle EXCEPT !.handler = "delitem", !.item = field,
                                !.done = res.done, !.before = doc]
    /\ UNCHANGED <<loc_cache, tmp>>
    /\ UNCHANGED <<viewVars, cacheVars, auxVars>>

\* ------------------------------------------------------------------ query errors

\* most words an error text is made of
MaxWords == 2

\* words of the error texts the GraphQL endpoint answers with
Words ==
    {<<"R", "e", "p", "o", "s", "i", "t", "o", "r", "y", " ">>,
     <<"r", "e", "p", "o", "s", "i", "t", "o", "r", "y", " ">>,
     <<"n", "u", "m", "b", "e", "r", " ">>,
     <<"N", "u", "m", "b", "e", "r", " ">>,
     <<"r", "e", "f", " ">>,
     <<"n", "o", "t", " ", "f", "o", "u", "n", "d", " ">>}

\* the texts of a QueryError: up to MaxWords words, one after the other
RECURSIVE TextsOf(_)
TextsOf(n) ==
    IF n = 0 THEN {<<>>}
    ELSE TextsOf(n - 1) \cup {t \o w : t \in TextsOf(n - 1), w \in Words}

ErrorTexts == TextsOf(MaxWords)

\* sub in s
Contains(s, sub) ==
    \E i \in 1..(Len(s) - Len(sub) + 1) : SubSeq(s, i, i + Len(sub) - 1) = sub

REPOSITORY == <<"R", "e", "p", "o", "s", "i", "t", "o", "r", "y">>
NUMBER == <<"n", "u", "m", "b", "e", "r">>

\* how the graphql call of a query method ends: with data, or with a
\* QueryError carrying a text
Answers == {[error |-> FALSE, text |-> <<>>]} \cup
           {[error |-> TRUE, text |-> t] : t \in ErrorTexts}

get_latest_commit_by_case_blind(answer) ==
    IF answer.error
    THEN IF Contains(answer.text, REPOSITORY)
            \/ Contains(answer.text, <<"r">> \o Tail(REPOSITORY))
         THEN "False" ELSE "None"
    ELSE "data"

\* GitHubAPI.get_latest_commit and GitHubAPI.get_commit for owner/name
get_latest_commit(answer) ==
    IF answer.error
    THEN IF Contains(answer.text, REPOSITORY) THEN "False" ELSE "None"
    ELSE "data"

\* GitHubAPI.get_latest_commits for owner/name
get_latest_commits(answer) ==
    IF answer.error
    THEN IF Contains(answer.text, REPOSITORY) THEN "repo" ELSE "ref"
    ELSE "data"

\* GitHubAPI.get_issue and GitHubAPI.get_pull_request for owner/name
get_issue(answer) ==
    IF answer.error
    THEN IF Contains(answer.text, NUMBER) THEN "number" ELSE "repo"
    ELSE "data"

QueryMethods ==
    {"get_latest_commit", "get_commit", "get_latest_commits", "get_issue",
     "get_pull_request"}

query_method(m, answer) ==
    IF m \in {"get_latest_commit", "get_commit"} THEN get_latest_commit(answer)
    ELSE IF m = "get_latest_commits" THEN get_latest_commits(answer)
    ELSE get_issue(answer)

\* a query method is awaited for a well-formed owner/name
Query ==
    /\ \E m \in QueryMethods, answer \in Answers :
        gql' = [method |-> m, error |-> answer.error, text |-> answer.text,
                result |-> query_method(m, answer), raised |-> FALSE]
    /\ UNCHANGED <<task, dbop>>
    /\ UNCHANGED <<viewVars, cacheVars, cmdVars>>

\* ------------------------------------------------------------------ interleaved callbacks

\* the button callbacks that can be in flight on one view
Tasks == {1, 2}

IdleTask ==
    [pc |-> "idle", forward |-> FALSE, a |-> None, b |-> None, new |-> Unset]

\* callback up to `await interaction.response.defer()`
Press(i) ==
    /\ task[i].pc = "idle"
    /\ \E forward \in BOOLEAN :
        task' = [task EXCEPT ![i] = [@ EXCEPT !.pc = "deferred",
                                              !.forward = forward]]
    /\ disabled' = FALSE
    /\ UNCHANGED <<platform, l1, l2, original_l1, original_l2, original_url,
                   original_match, lines_url, label_back, label_forward, msg,
                   op, previous_l1, previous_l2, new, presses, trip>>
    /\ UNCHANGED <<gql, dbop>>
    /\ UNCHANGED <<cacheVars, cmdVars>>

\* callback from the defer up to `await get_text_from_url_and_data(...)`:
\* the view's window and url are advanced, new_match is built
Advance(i) ==
    /\ task[i].pc = "deferred"
    /\ LET nxt == get_next_lines(l1, l2, task[i].forward) IN
        /\ l1' = nxt[1]
        /\ l2' = nxt[2]
        /\ lines_url' = RewriteUrl(lines_url, platform, l1, l2, nxt[1], nxt[2])
        /\ task' = [task EXCEPT ![i] = [@ EXCEPT !.pc = "fetching",
                                              !.a = nxt[1], !.b = nxt[2]]]
    /\ UNCHANGED <<platform, original_l1, original_l2, original_url,
                   original_match, disabled, label_back, label_forward, msg,
                   op, previous_l1, previous_l2, new, presses, trip>>
    /\ UNCHANGED <<gql, dbop>>
    /\ UNCHANGED <<cacheVars, cmdVars>>

\* callback from the fetched text to its end: labels and header are taken
\* from self.view.l1 and self.view.l2 as they are now, the text is the one
\* fetched for new_match
Show(i) ==
    /\ task[i].pc = "fetching"
    /\ disabled' = disabled
    /\ \E text \in Texts(task[i].a, task[i].b) :
        /\ IF text # NoText
           THEN /\ set_labels(get_next_lines(l1, l2, FALSE),
                              get_next_lines(l1, l2, TRUE))
                /\ msg' = Rendered([hdr |-> Header(l1, l2), text |-> text])
           ELSE UNCHANGED <<label_back, label_forward, msg>>
        /\ task' = [task EXCEPT ![i] = [@ EXCEPT !.pc = "done",
                                                 !.new = text]]
    /\ UNCHANGED <<platform, l1, l2, original_l1, original_l2, original_url,
                   original_match, lines_url,
                   op, previous_l1, previous_l2, new, presses, trip>>
    /\ UNCHANGED <<gql, dbop>>
    /\ UNCHANGED <<cacheVars, cmdVars>>

\* ------------------------------------------------------------------ interleaved collection calls

NoQuery == [none |-> TRUE]

IdleOps ==
    [del |-> [pc |-> "idle", field |-> "none", query |-> NoQuery,
              ret |-> FALSE, dropped |-> NoQuery],
     set |-> [pc |-> "idle", item |-> "none", value |-> None,
              query |-> NoQuery, ret |-> FALSE, raised |-> "none"]]

\* the documents the collection can hold for one id
Docs ==
    {NoDoc} \cup
    {[exists |-> TRUE, f |-> g] :
        g \in {h \in [Fields -> Names \cup {None}] : \E x \in Fields : h[x] # None}}

\* find_one({"_id": _id})
find_one(d) == IF d.exists THEN d ELSE NoQuery

\* a filter document (a document read earlier) matches the stored document:
\* every key of the filter is in the document with the same value
Matches(d, filter) ==
    /\ d.exists
    /\ \A x \in Fields : filter.f[x] # None => d.f[x] = filter.f[x]

\* delitem up to the answer of find_one
DelFind ==
    /\ dbop.del.pc = "idle"
    /\ \E field \in Fields :
        LET found == find_one(doc) IN
        dbop' = [dbop EXCEPT !.del =
                    IF found # NoQuery /\ found.f[field] # None
                    THEN [@ EXCEPT !.pc = "found", !.field = field,
                                   !.query = found]
                    ELSE [@ EXCEPT !.pc = "done", !.field = field,
                                   !.ret = FALSE]]
    /\ UNCHANGED <<doc, loc_cache, tmp, run>>
    /\ UNCHANGED <<gql, task>>
    /\ UNCHANGED <<viewVars, cacheVars>>

\* delitem from update_one(query, {"$unset": ...}) to the next await or the
\* return
DelUnset ==
    /\ dbop.del.pc = "found"
    /\ LET found == dbop.del.query
           field == dbop.del.field
           left == [found EXCEPT !.f[field] = None] IN
        /\ doc' = IF Matches(doc, found)
                  THEN [doc EXCEPT !.f[field] = None]
                  ELSE doc
        /\ dbop' = [dbop EXCEPT !.del =
                       IF DocLen(left) = 1
                       THEN [@ EXCEPT !.pc = "deleting"]
                       ELSE [@ EXCEPT !.pc = "done", !.ret = TRUE]]
    /\ UNCHANGED <<loc_cache, tmp, run>>
    /\ UNCHANGED <<gql, task>>
    /\ UNCHANGED <<viewVars, cacheVars>>

\* delitem's find_one_and_delete({"_id": _id}) and return
DelDrop ==
    /\ dbop.del.pc = "deleting"
    /\ doc' = NoDoc
    /\ dbop' = [dbop EXCEPT !.del = [@ EXCEPT !.pc = "done", !.ret = TRUE,
                                              !.dropped = find_one(doc)]]
    /\ UNCHANGED <<loc_cache, tmp, run>>
    /\ UNCHANGED <<gql, task>>
    /\ UNCHANGED <<viewVars, cacheVars>>

\* setitem up to the answer of the API lookup (or the locale list)
SetValidate ==
    /\ dbop.set.pc = "idle"
    /\ \E item \in Fields, value \in Names, valid \in BOOLEAN :
        dbop' = [dbop EXCEPT !.set =
                    IF valid
                    THEN [@ EXCEPT !.pc = "valid", !.item = item,
                                   !.value = value]
                    ELSE [@ EXCEPT !.pc = "done", !.item = item,
                                   !.value = value, !.ret = FALSE]]
    /\ UNCHANGED <<doc, loc_cache, tmp, run>>
    /\ UNCHANGED <<gql, task>>
    /\ UNCHANGED <<viewVars, cacheVars>>

\* setitem's find_one
SetFind ==
    /\ dbop.set.pc = "valid"
    /\ dbop' = [dbop EXCEPT !.set = [@ EXCEPT !.pc = "found",
                                              !.query = find_one(doc)]]
    /\ UNCHANGED <<doc, loc_cache, tmp, run>>
    /\ UNCHANGED <<gql, task>>
    /\ UNCHANGED <<viewVars, cacheVars>>

\* setitem's update_one(query, {"$set": ...}) or insert_one, and return;
\* insert_one of an _id the collection holds raises DuplicateKeyError
SetWrite ==
    /\ dbop.set.pc = "found"
    /\ LET found == dbop.set.query
           item == dbop.set.item
           value == dbop.set.value IN
        IF found # NoQuery
        THEN /\ doc' = IF Matches(doc, found)
                       THEN [doc EXCEPT !.f[item] = value]
                       ELSE doc
             /\ dbop' = [dbop EXCEPT !.set = [@ EXCEPT !.pc = "done",
                                                       !.ret = TRUE]]
        ELSE IF doc.exists
        THEN /\ doc' = doc
             /\ dbop' = [dbop EXCEPT !.set =
                            [@ EXCEPT !.pc = "done",
                                      !.raised = "DuplicateKeyError"]]
        ELSE /\ doc' = [exists |-> TRUE, f |-> [NoDoc.f EXCEPT ![item] = value]]
             /\ dbop' = [dbop EXCEPT !.set = [@ EXCEPT !.pc = "done",
                                                       !.ret = TRUE]]
    /\ UNCHANGED <<loc_cache, tmp, run>>
    /\ UNCHANGED <<gql, task>>
    /\ UNCHANGED <<viewVars, cacheVars>>

\* nothing asked, nothing in flight
AuxInit ==
    /\ gql = [method |-> "none", error |-> FALSE, text |-> <<>>,
               result |-> "none", raised |-> FALSE]
    /\ task = [i \in Tasks |-> IdleTask]
    /\ dbop = IdleOps

\* ------------------------------------------------------------------ specifications

\* the view is exercised, the cache left alone
Init == ViewInit /\ CacheInit /\ CmdInit /\ AuxInit

Next == Forward \/ Backward \/ Revert

Spec == Init /\ [][Next]_vars

\* the cache is exercised, one view left alone
CacheSpecInit == ViewInitOf("github", 1, None) /\ CacheInit /\ CmdInit /\ AuxInit

CacheNext == Call \/ Expire

CacheSpec == CacheSpecInit /\ [][CacheNext]_vars

\* the cache is exercised with its clock and its size cap
TtlNext == TtlCall \/ Tick \/ OtherStore

TtlSpec == CacheSpecInit /\ [][TtlNext]_vars

\* the command handlers and the users collection are exercised
CmdNext == UserCommand \/ SetItem \/ DelItem

CmdSpec == CacheSpecInit /\ [][CmdNext]_vars

\* the loc command is exercised
LocNext == Loc

LocSpec == CacheSpecInit /\ [][LocNext]_vars

\* every command handler is exercised
HandlerNext ==
    \/ UserCommand \/ UserRepos \/ Loc
    \/ CrateInfo \/ CrateDownloads \/ ProjectInfo \/ ProjectDownloads

HandlerSpec == CacheSpecInit /\ [][HandlerNext]_vars

\* the query methods are exercised
QueryNext == Query

QuerySpec == CacheSpecInit /\ [][QueryNext]_vars

\* two button callbacks run on one view, interleaved at their awaits
RaceNext == \E i \in Tasks : Press(i) \/ Advance(i) \/ Show(i)

RaceSpec == Init /\ [][RaceNext]_vars

\* a delitem and a setitem run on one document, interleaved at their awaits
DbRaceInit ==
    /\ ViewInitOf("github", 1, None) /\ CacheInit /\ AuxInit
    /\ \E d \in Docs : CmdInitOf(d)

DbRaceNext ==
    \/ DelFind \/ DelUnset \/ DelDrop
    \/ SetValidate \/ SetFind \/ SetWrite

DbRaceSpec == DbRaceInit /\ [][DbRaceNext]_vars

\* ------------------------------------------------------------------ claims

Steps == {"forward", "backward"}

\* the window a button label announces
LabelWindow(label) ==
    IF label.fmt = "view" THEN <<label.args[1], label.args[1]>>
    ELSE <<label.args[1], label.args[2]>>

\* C1: whatever forward/backward steps came before, when a revert has run the
\* view holds the window captured at construction: l1 is the clamped first
\* line of the link and l2 its second line (None for a single-line link).
C1_RevertRestoresOriginal ==
    op = "revert" =>
        /\ l1 = original_l1 /\ l2 = original_l2
        /\ original_l1 = Max(original_match[1], 1)
        /\ original_l2 = original_match[2]

C1_Witness ==
    /\ op = "revert"
    /\ presses >= 3
    /\ original_l2 = None
    /\ previous_l1 = None

\* C2: a forward step from (l1, l2) gives (l2+1, l2+25) when l2 is set and
\* (l1, l1+25) when l2 is None.
C2_ForwardStep ==
    op = "forward" =>
        IF previous_l2 # None
        THEN l1 = previous_l2 + 1 /\ l2 = previous_l2 + 25
        ELSE l1 = previous_l1 /\ l2 = previous_l1 + 25

C2_Witness ==
    /\ op = "forward"
    /\ previous_l2 = None
    /\ l2 = l1 + 25

\* C3: a backward step from (l1, l2) gives (max(l1-25, 1), max(l1-1, 1)),
\* whatever l2 was.
C3_BackwardStep ==
    op = "backward" =>
        /\ l1 = Max(previous_l1 - 25, 1)
        /\ l2 = Max(previous_l1 - 1, 1)

C3_Witness ==
    /\ op = "backward"
    /\ previous_l2 = None
    /\ previous_l1 < 25

C5_RoundTripOnlyIfNoClamp ==
    (/\ trip.pure /\ trip.f >= 1 /\ trip.b = trip.f
     /\ l1 = original_l1 /\ l2 = original_l2)
        => ~trip.clamped

\* C5 amended: after n >= 1 forward and then n backward steps the window
\* equals the original exactly when the original l2 is set, l2 >= 1 and
\* l1 = max(l2 - 24, 1); a lower bound clamped to 1 does not prevent it.
C5_RoundTripExactly ==
    (trip.pure /\ trip.f >= 1 /\ trip.b = trip.f) =>
        ((l1 = original_l1 /\ l2 = original_l2)
            <=> (/\ original_l2 # None
                 /\ original_l2 >= 1
                 /\ original_l1 = Max(original_l2 - 24, 1)))

C5_Witness ==
    /\ trip.pure /\ trip.f = 2 /\ trip.b = 2
    /\ trip.clamped
    /\ l1 = original_l1 /\ l2 = original_l2

\* C6: in every reachable state l1 >= 1, and l2 is None or >= 1.
C6_ClampingFloor ==
    /\ l1 >= 1
    /\ l2 = None \/ l2 >= 1

\* the step that ran last clamped neither bound
Unclamped ==
    \/ op = "forward"
    \/ op = "backward" /\ previous_l1 - Step >= 1

\* C7 as stated: every window produced by a step that was not clamped spans
\* exactly 25 lines, a single-line start included.
C7_WindowSpans25 ==
    (op \in Steps /\ Unclamped) => l2 - l1 + 1 = 25

\* C7 amended: a window produced by an unclamped step spans exactly 25 lines,
\* except the forward step from a single-line start (l2 None), whose window
\* [l1, l1+25] spans 26 lines.
C7_WindowSpans25Or26 ==
    (op \in Steps /\ Unclamped) =>
        IF op = "forward" /\ previous_l2 = None
        THEN l2 - l1 + 1 = 26
        ELSE l2 - l1 + 1 = 25

C7_Witness ==
    /\ op = "forward"
    /\ previous_l2 = None
    /\ l2 - l1 + 1 = 26

\* C8: a forward/backward step whose fetch returns no text leaves the
\* displayed message (content, both navigation labels) and the view's two
\* labels as they were.
C8_NoTextNoEdit ==
    [][(op' \in Steps /\ new' = NoText) =>
          /\ msg' = msg
          /\ label_back' = label_back
          /\ label_forward' = label_forward]_vars

C8_Witness ==
    /\ op \in Steps
    /\ new = NoText
    /\ presses >= 2
    /\ msg.content.hdr # <<>>

\* C9: after a step whose fetch returned text, the backward label announces
\* (max(l1-25, 1), max(l1-1, 1)) and the forward label (l2+1, l2+25) for the
\* new (l1, l2), and the edited message shows these labels.
C9_LabelsPreviewNextWindows ==
    (op \in Steps /\ new # NoText) =>
        /\ LabelWindow(label_back) = <<Max(l1 - 25, 1), Max(l1 - 1, 1)>>
        /\ LabelWindow(label_forward) = <<l2 + 1, l2 + 25>>
        /\ msg.back = label_back
        /\ msg.forward = label_forward
        /\ msg.content.text = new

C9_Witness ==
    /\ op = "backward"
    /\ new # NoText
    /\ label_back = view(1)
    /\ msg.back = view(1)

\* C10: no entry of github_object_cache holds anything but a dict or a list.
C10_OnlyContainersCached ==
    \A k \in Keys :
        github_object_cache[k] # Absent =>
            github_object_cache[k].v.type \in {"dict", "list"}

C10_Witness ==
    /\ call.outcome = "miss"
    /\ call.result.v.type \in {"NoneType", "bool", "str"}
    /\ github_object_cache[call.key] = Absent
    /\ \E k \in Keys : github_object_cache[k] # Absent

\* C11: a call is answered from the cache only while the entry is stored and
\* no older than max_age (450); a positional call that finds the entry
\* expired, pushed out by the size cap (64 entries) or never stored invokes
\* the wrapped method.
C11_HitOnlyWhileLive ==
    /\ call.outcome = "hit" =>
           /\ call.had = "live"
           /\ call.age <= 450
           /\ Cardinality(Stored) + others <= 64
    /\ (call.style = "positional" /\ call.had \in {"expired", "evicted", "never"})
           => call.outcome = "miss"

C11_Witness ==
    /\ call.outcome = "miss"
    /\ call.had = "evicted"
    /\ \E k \in Keys : github_object_cache[k] # Absent /\ age[k] > 450

\* C12: every call, its first argument given positionally or by keyword, is
\* keyed by the function and the argument's value: it completes as a hit or a
\* miss and the result it receives is one of that function for that value.
C12_KeyedByFunctionAndArgument ==
    call.style \in {"positional", "keyword"} =>
        /\ call.outcome \in {"hit", "miss"}
        /\ call.result.of = call.key

\* the last run is one of the user info handlers and it awaited get_user
AskedUser == run.handler \in {"user", "user info"} /\ run.api = <<"get_user">>

\* C13: when a user is looked up and get_user hands back nothing, the
\* handler sends exactly one reply, that reply is the error telling that
\* the user does not exist (the plain one, or the one for a stored user that
\* has gone), no embed is sent, and no exception leaves the handler
C13_MissingUserOneError ==
    (AskedUser /\ run.found = NoU) =>
        /\ Len(run.replies) = 1
        /\ run.replies[1].kind = "error"
        /\ run.replies[1].text = (IF run.stored
                                  THEN "generic.nonexistent.user.qa_changed"
                                  ELSE "generic.nonexistent.user.base")
        /\ run.raised = "none"

\* a named user that does not exist was asked for and the error was sent
C13_Witness ==
    /\ AskedUser /\ run.found = NoU
    /\ run.handler = "user info" /\ run.given \in Names
    /\ run.replies[1].text = "generic.nonexistent.user.base"

\* the wording the thresholds 0 / 1 / 2 and more call for
Worded(n) ==
    IF n = 0 THEN Phrase("none", None)
    ELSE IF n = 1 THEN Phrase("singular", None)
    ELSE Phrase("plural", n)

\* C19: in the embed of a user that was found, each of organizations,
\* followers, following and public repositories is worded "none" for a count
\* of 0, singular for a count of 1, and plural with the count itself for any
\* count of 2 or more
C19_CountPhrasing ==
    (AskedUser /\ run.found # NoU) =>
        /\ Len(run.replies) = 1
        /\ run.replies[1].kind = "embed"
        /\ run.replies[1].body.orgs = Worded(run.found.organizations)
        /\ run.replies[1].body.followers = Worded(run.found.followers)
        /\ run.replies[1].body.following = Worded(run.found.following)
        /\ run.replies[1].body.repos = Worded(run.found.public_repos)

\* a profile with no organizations, one follower, two followed and three
\* repositories was worded
C19_Witness ==
    /\ AskedUser /\ run.found # NoU
    /\ run.found.organizations = 0 /\ run.found.followers = 1
    /\ run.replies[1].body.following = Phrase("plural", 2)
    /\ run.replies[1].body.repos = Phrase("plural", 3)

\* C18: setitem on user, repo, org or locale with a value the API lookup (or
\* the locale list) does not confirm returns False and leaves the stored
\* document as it was, inserting and updating nothing; with a confirmed value
\* it returns True, the document exists and the field holds the new value,
\* the other fields being as before
C18_SetItemValidates ==
    run.handler = "setitem" =>
        IF run.confirmed
        THEN /\ run.done
             /\ doc.exists
             /\ doc.f[run.item] = run.given
             /\ \A x \in Fields \ {run.item} : doc.f[x] = run.before.f[x]
        ELSE ~run.done /\ doc = run.before

\* an unconfirmed user name was refused while a document with another user
\* was stored, and a confirmed one has been written before
C18_Witness ==
    /\ run.handler = "setitem" /\ run.item = "user" /\ ~run.confirmed
    /\ ~run.done
    /\ doc.exists /\ doc.f["user"] \in Names /\ doc.f["user"] # run.given

\* the steps process_repo took in the last run
StepsTaken == {run.steps[i] : i \in DOMAIN run.steps}

\* C14: when the loc handler fetches a zipball larger than the 25 MB
\* threshold, its only reply is the "file too big" error, and nothing was
\* computed: no zip was written, nothing unzipped, cloc not run, nothing
\* stored in loc_cache, no artifact left and no exception raised
C14_TooBigNoPartialWork ==
    (run.handler = "loc" /\ run.size # None /\ run.size > _25MB_BYTES) =>
        /\ Len(run.replies) = 1
        /\ run.replies[1].kind = "error"
        /\ run.replies[1].text = "loc.file_too_big"
        /\ run.raised = "none"
        /\ run.steps = <<"get_repo_zip">>
        /\ StepsTaken \cap {"write", "unzip", "config", "cloc", "store"} = {}
        /\ tmp = NoTmp
        /\ ~run.nocache => loc_cache[run.given] = Absent

\* an archive one byte over the threshold was fetched and refused
C14_Witness ==
    /\ run.handler = "loc" /\ run.status = 200
    /\ run.size = _25MB_BYTES + 1
    /\ run.replies[1].text = "loc.file_too_big"

\* C15: whenever process_repo has finished, by returning a result, by
\* returning nothing or by raising, neither the temporary zip nor the
\* temporary directory of that invocation exists
C15_ArtifactsRemoved ==
    (run.handler = "loc" /\ run.confirmed) => (~tmp.zip /\ ~tmp.dir)

\* C17: the loc handler answers "file too big" only for an archive that was
\* fetched and reaches the threshold; a cloc run that exits nonzero and an
\* archive response other than 200 are answered with another message
C17_DistinctFailureMessages ==
    (run.handler = "loc" /\ Len(run.replies) = 1
        /\ run.replies[1].text = "loc.file_too_big") =>
            (run.status = 200 /\ run.size >= _25MB_BYTES)

\* the command handlers
Handlers ==
    {"user", "user info", "user repos", "loc", "crates info",
     "crates downloads", "pypi info", "pypi downloads"}

\* C16: every run of a command handler, whatever its external calls hand
\* back, ends with a reply sent and no exception leaving the handler
C16_NoExceptionPastHandler ==
    run.handler \in Handlers => (run.raised = "none" /\ Len(run.replies) >= 1)

\* the list a handler showed in its last run, and the cap it applies
ShownList ==
    /\ run.handler \in {"user repos", "crates info"}
    /\ Len(run.replies) = 1
    /\ run.replies[1].kind = "embed"

Cap == IF run.handler = "user repos" THEN 15 ELSE 5

\* C20: when user repos (cap 15) or crates info (cap 5) shows a list of N
\* entries, it shows exactly the first cap entries and an indicator carrying
\* N - cap if N exceeds the cap, and all N entries with no indicator
\* otherwise
C20_ListTruncation ==
    ShownList =>
        LET N == Len(run.items)
            b == run.replies[1].body IN
        IF N > Cap
        THEN b.items = SubSeq(run.items, 1, Cap) /\ b.more = Str(N - Cap)
        ELSE b.items = run.items /\ b.more = <<>>

\* sixteen repositories were listed as fifteen and "1" more
C20_Witness ==
    /\ ShownList /\ run.handler = "user repos"
    /\ Len(run.items) = 16
    /\ Len(run.replies[1].body.items) = 15
    /\ run.replies[1].body.more = <<"1">>

\* C21: a run of pypi downloads or crates downloads awaits exactly two API
\* methods, and a run of user info, user repos, crates info or pypi info
\* awaits no more than one
C21_ApiCallsPerHandler ==
    /\ run.handler \in {"pypi downloads", "crates downloads"} =>
           Len(run.api) = 2
    /\ run.handler \in {"user info", "user repos", "crates info", "pypi info"} =>
           Len(run.api) <= 1

\* C22: a query error never leaves a query method, and its text decides the
\* marker returned: get_latest_commit and get_commit return False exactly
\* when the text contains "Repository" and None otherwise; get_latest_commits
\* returns 'repo' exactly when it contains "Repository" and 'ref' otherwise;
\* get_issue and get_pull_request return 'number' exactly when it contains
\* "number" and 'repo' otherwise
C22_ErrorsClassifiedBySubstring ==
    (gql.method \in QueryMethods /\ gql.error) =>
        LET hasRepository == Contains(gql.text, REPOSITORY)
            hasNumber == Contains(gql.text, NUMBER) IN
        /\ ~gql.raised
        /\ gql.method \in {"get_latest_commit", "get_commit"} =>
               gql.result = (IF hasRepository THEN "False" ELSE "None")
        /\ gql.method = "get_latest_commits" =>
               gql.result = (IF hasRepository THEN "repo" ELSE "ref")
        /\ gql.method \in {"get_issue", "get_pull_request"} =>
               gql.result = (IF hasNumber THEN "number" ELSE "repo")

\* get_commit met an error whose text has "repository" in lower case only and
\* returned None
C22_Witness ==
    /\ gql.method = "get_commit" /\ gql.error
    /\ Len(gql.text) > 11
    /\ ~Contains(gql.text, REPOSITORY)
    /\ Contains(gql.text, Tail(REPOSITORY))
    /\ gql.result = "None"

\* C23: the window the view holds is the window of the text the message
\* displays; in particular after a forward or backward step whose fetch
\* returned no text, l1 and l2 are what they were before the step and the
\* revert button is enabled in the view only if it is in the message
C23_ViewMatchesDisplayed ==
    /\ msg.content.text # NoText =>
           (Max(msg.content.text.a, 1) = l1 /\ msg.content.text.b = l2)
    /\ (op \in {"forward", "backward"} /\ new = NoText) =>
           /\ l1 = previous_l1
           /\ l2 = previous_l2
           /\ disabled = msg.revert_disabled

\* C24: on a github view, after any forward, backward and revert steps the
\* fragment of lines_url is that of the current (l1, l2), and after a revert
\* lines_url is original_url
C24_UrlEncodesWindow ==
    (platform = "github" /\ op # "init") =>
        /\ l2 # None => lines_url = LinkUrl("github", l1, l2)
        /\ op = "revert" => lines_url = original_url

\* C25: the labels shown after a revert are those shown at construction, and
\* the forward label shown at construction names the window that pressing
\* forward from the initial (l1, l2) produces
C25_LabelsAtConstruction ==
    /\ op = "revert" =>
           /\ label_back = init_label_back(original_match[1])
           /\ label_forward = init_label_forward(original_match[1],
                                                  original_match[2])
    /\ op = "init" =>
           LET nxt == get_next_lines(l1, l2, TRUE) IN
           label_forward = view_from_to(nxt[1], nxt[2])

\* C27: a positional call that finds a container stored under its key, not
\* expired and not evicted, returns that value without calling the wrapped
\* method
C27_LiveEntryAlwaysHit ==
    (call.style = "positional" /\ call.had = "live") => call.outcome = "hit"

\* the last run looked a user up and the user does not exist
MissingUser == AskedUser /\ run.found = NoU

\* C29: a run of the user group or the user info command ends with exactly
\* one reply; it changes the stored document only when the name came from
\* the stored document and the user does not exist, and then it removes the
\* user field, keeps the other fields and sends the "changed" error; when
\* the name was given and does not exist the document is as before
C29_StoredUserForgottenOnlyWhenGone ==
    run.handler \in {"user", "user info"} =>
        /\ Len(run.replies) = 1
        /\ run.raised = "none"
        /\ doc # run.before => (run.stored /\ MissingUser)
        /\ (run.stored /\ MissingUser) =>
               /\ doc.f = [run.before.f EXCEPT !["user"] = None]
               /\ doc.exists = (\E x \in Fields : doc.f[x] # None)
               /\ run.replies[1].text = "generic.nonexistent.user.qa_changed"
        /\ (~run.stored /\ MissingUser) => doc = run.before

\* the stored user had gone: its name was removed, the stored repo kept
C29_Witness ==
    /\ run.handler = "user" /\ run.given = None
    /\ run.stored /\ MissingUser
    /\ run.before.f["user"] \in Names /\ run.before.f["repo"] \in Names
    /\ doc.exists /\ doc.f["user"] = None /\ doc.f["repo"] \in Names

\* both callbacks have run to their end
BothDone == \A i \in Tasks : task[i].pc = "done"

\* C26: once two interleaved forward/backward callbacks on a view have both
\* completed, each with the text it fetched, the range in the message's
\* header is the range of the text displayed, and that range is the view's
\* (l1, l2)
C26_InterleavedCallbacksAgree ==
    (BothDone /\ \A i \in Tasks : task[i].new # NoText) =>
        /\ msg.content.hdr = Header(msg.content.text.a, msg.content.text.b)
        /\ msg.content.text.a = l1
        /\ msg.content.text.b = l2

\* C28: when a delitem(id, f) and a setitem(id, g, v) with g other than f
\* have both completed, in whatever order their steps ran, and setitem
\* returned True, the document exists and holds g = v; and the document
\* delitem removed as a whole held no field besides _id
C28_DelItemSetItemInterleaved ==
    /\ (dbop.del.pc = "done" /\ dbop.set.pc = "done" /\ dbop.set.ret
            /\ dbop.del.field # dbop.set.item) =>
           (doc.exists /\ doc.f[dbop.set.item] = dbop.set.value)
    /\ (dbop.del.dropped # NoQuery) => DocLen(dbop.del.dropped) = 1

=============================================================================
